---- MODULE Spec2Model ----
(***************************************************************************)
(* Upload gateway of aws-whitemap-api.  The two CDK stacks (the simple one *)
(* of cdk/lib/cdk-stack.ts and the extended one with two routes, an API    *)
(* key and a usage plan) declare a REST API whose PUT methods are proxied  *)
(* to S3.  The declarations are modelled as values, and the gateway that   *)
(* serves requests according to the deployed declaration as the state      *)
(* machine.                                                                *)
(***************************************************************************)
EXTENDS Integers, Sequences, FiniteSets, TLC

VARIABLES variant, api, pc, req, used, s3calls, s3req, upstream, resp

vars == <<variant, api, pc, req, used, s3calls, s3req, upstream, resp>>

(***************************************************************************)
(* Selection patterns.  A pattern is a sequence of atoms: a literal        *)
(* character or \d{n}.  Status codes are sequences of decimal digits.      *)
(***************************************************************************)
Digit == 0..9

Lit(c) == [atom |-> "lit", ch |-> c]

DigitRep(n) == [atom |-> "digit", count |-> n]

RECURSIVE Expand(_)
Expand(p) ==
    IF p = <<>> THEN <<>>
    ELSE LET a == Head(p)
         IN  IF a.atom = "lit"
             THEN <<{a.ch}>> \o Expand(Tail(p))
             ELSE [i \in 1..a.count |-> Digit] \o Expand(Tail(p))

\* the whole status code has to match the pattern
RegexMatches(p, s) ==
    LET e == Expand(p)
    IN  Len(e) = Len(s) /\ \A i \in 1..Len(s) : s[i] \in e[i]

(***************************************************************************)
(* Parameter mappings.  A response parameter is either a quoted static     *)
(* value or a reference to a header of the integration response.           *)
(***************************************************************************)
Static(v) == [kind |-> "static", value |-> v]

FromHeader(h) == [kind |-> "header", value |-> h]

Param(n) == [seg |-> "param", name |-> n]

Literal(s) == [seg |-> "literal", name |-> s]

CorsHeaders ==
    {"Access-Control-Allow-Headers", "Access-Control-Allow-Methods",
     "Access-Control-Allow-Origin"}

(***************************************************************************)
(* bin/cdk.ts                                                              *)
(***************************************************************************)
bucketName == "aws-whitemap-cloudfront"

(***************************************************************************)
(* The extended stack.                                                     *)
(***************************************************************************)
createServerErrorResponse_Status502 ==
    [statusCode |-> "502",
     selectionPattern |-> <<Lit(5), DigitRep(2)>>,
     responseParameters |->
         ("Access-Control-Allow-Headers" :> Static("Content-Type,Authorization"))
      @@ ("Access-Control-Allow-Methods" :> Static("OPTIONS,POST,PUT,GET,DELETE"))
      @@ ("Access-Control-Allow-Origin" :> Static("*"))]

createServerErrorResponse_NoOrigin ==
    [statusCode |-> "500",
     selectionPattern |-> <<Lit(5), DigitRep(2)>>,
     responseParameters |->
         ("Access-Control-Allow-Headers" :> Static("Content-Type,Authorization"))
      @@ ("Access-Control-Allow-Methods" :> Static("OPTIONS,POST,PUT,GET,DELETE"))]

createServerErrorResponse ==
    [statusCode |-> "500",
     selectionPattern |-> <<Lit(5), DigitRep(2)>>,
     responseParameters |->
         ("Access-Control-Allow-Headers" :> Static("Content-Type,Authorization"))
      @@ ("Access-Control-Allow-Methods" :> Static("OPTIONS,POST,PUT,GET,DELETE"))
      @@ ("Access-Control-Allow-Origin" :> Static("*"))]

createOkResponse_DateAsLength ==
    [statusCode |-> "200",
     responseParameters |->
         ("Timestamp" :> FromHeader("Date"))
      @@ ("Content-Length" :> FromHeader("Date"))
      @@ ("Content-Type" :> FromHeader("Content-Type"))
      @@ createServerErrorResponse.responseParameters]

createOkResponse ==
    [statusCode |-> "200",
     responseParameters |->
         ("Timestamp" :> FromHeader("Date"))
      @@ ("Content-Length" :> FromHeader("Content-Length"))
      @@ ("Content-Type" :> FromHeader("Content-Type"))
      @@ createServerErrorResponse.responseParameters]

createNotFoundResponse_Status404 ==
    [statusCode |-> "404",
     selectionPattern |-> <<Lit(4), DigitRep(2)>>,
     responseParameters |-> createServerErrorResponse.responseParameters]

createNotFoundResponse_NoCors ==
    [statusCode |-> "400",
     selectionPattern |-> <<Lit(4), DigitRep(2)>>,
     responseParameters |-> [h \in {} |-> Static("")]]

createNotFoundResponse_AnyStatus ==
    [statusCode |-> "400",
     selectionPattern |-> <<DigitRep(3)>>,
     responseParameters |-> createServerErrorResponse.responseParameters]

createNotFoundResponse ==
    [statusCode |-> "400",
     selectionPattern |-> <<Lit(4), DigitRep(2)>>,
     responseParameters |-> createServerErrorResponse.responseParameters]

createAwsIntegrationToUploadBucket_ObjectFromUserId(toUploadBucketPath) ==
    [service |-> "s3",
     integrationHttpMethod |-> "PUT",
     path |-> toUploadBucketPath,
     requestHeaders |-> ("Content-Type" :> "Content-Type"),
     requestPath |-> ("folder" :> "userId") @@ ("object" :> "userId"),
     integrationResponses |->
         <<createOkResponse, createNotFoundResponse, createServerErrorResponse>>]

createAwsIntegrationToUploadBucket(toUploadBucketPath) ==
    [service |-> "s3",
     integrationHttpMethod |-> "PUT",
     path |-> toUploadBucketPath,
     requestHeaders |-> ("Content-Type" :> "Content-Type"),
     requestPath |-> ("folder" :> "userId") @@ ("object" :> "fileName"),
     integrationResponses |->
         <<createOkResponse, createNotFoundResponse, createServerErrorResponse>>]

createMethodOptions_NoKey ==
    LET responseParameters == CorsHeaders
    IN  [apiKeyRequired |-> FALSE,
         requestParameters |-> {"header.Content-Type", "path.userId", "path.fileName"},
         methodResponses |->
             <<[statusCode |-> "200",
                responseParameters |->
                    {"Timestamp", "Content-Length", "Content-Type"}
                        \cup responseParameters],
               [statusCode |-> "400", responseParameters |-> responseParameters],
               [statusCode |-> "500", responseParameters |-> responseParameters]>>]

createMethodOptions ==
    LET responseParameters == CorsHeaders
    IN  [apiKeyRequired |-> TRUE,
         requestParameters |-> {"header.Content-Type", "path.userId", "path.fileName"},
         methodResponses |->
             <<[statusCode |-> "200",
                responseParameters |->
                    {"Timestamp", "Content-Length", "Content-Type"}
                        \cup responseParameters],
               [statusCode |-> "400", responseParameters |-> responseParameters],
               [statusCode |-> "500", responseParameters |-> responseParameters]>>]

\* quota: { limit: 30, period: DAY }
QuotaLimit == 30

createUsagePlan ==
    [apiKeys |-> {"defaultKeys"}, quota |-> QuotaLimit]

ExtendedStack_BgmToImages ==
    LET backgroundImageIntegration ==
            createAwsIntegrationToUploadBucket(
                <<Literal(bucketName), Literal("data"),
                  Literal("background-images"), Param("folder"), Param("object")>>)
        bgmIntegration ==
            createAwsIntegrationToUploadBucket(
                <<Literal(bucketName), Literal("data"),
                  Literal("background-images"), Param("folder"), Param("object")>>)
        methodOptions == createMethodOptions
    IN  [usagePlan |-> createUsagePlan,
         binaryMediaTypes |-> {"image/*", "audio/*"},
         methods |->
             {[httpMethod |-> "PUT",
               resource |-> <<Literal("users"), Param("userId"), Literal("files"),
                              Literal("background-images"), Param("fileName")>>,
               integration |-> backgroundImageIntegration,
               options |-> methodOptions],
              [httpMethod |-> "PUT",
               resource |-> <<Literal("users"), Param("userId"), Literal("files"),
                              Literal("bgms"), Param("fileName")>>,
               integration |-> bgmIntegration,
               options |-> methodOptions]}]

ExtendedStack ==
    LET backgroundImageIntegration ==
            createAwsIntegrationToUploadBucket(
                <<Literal(bucketName), Literal("data"),
                  Literal("background-images"), Param("folder"), Param("object")>>)
        bgmIntegration ==
            createAwsIntegrationToUploadBucket(
                <<Literal(bucketName), Literal("data"),
                  Literal("bgms"), Param("folder"), Param("object")>>)
        methodOptions == createMethodOptions
    IN  [usagePlan |-> createUsagePlan,
         binaryMediaTypes |-> {"image/*", "audio/*"},
         methods |->
             {[httpMethod |-> "PUT",
               resource |-> <<Literal("users"), Param("userId"), Literal("files"),
                              Literal("background-images"), Param("fileName")>>,
               integration |-> backgroundImageIntegration,
               options |-> methodOptions],
              [httpMethod |-> "PUT",
               resource |-> <<Literal("users"), Param("userId"), Literal("files"),
                              Literal("bgms"), Param("fileName")>>,
               integration |-> bgmIntegration,
               options |-> methodOptions]}]

(***************************************************************************)
(* The simple stack (cdk/lib/cdk-stack.ts).                                *)
(***************************************************************************)
Simple_createServerErrorResponse ==
    [statusCode |-> "500",
     selectionPattern |-> <<Lit(5), DigitRep(2)>>,
     responseParameters |->
         ("Access-Control-Allow-Headers" :> Static("Content-Type,Authorization"))
      @@ ("Access-Control-Allow-Methods" :> Static("OPTIONS,POST,PUT,GET,DELETE"))
      @@ ("Access-Control-Allow-Origin" :> Static("*"))]

Simple_createOkResponse ==
    [statusCode |-> "200",
     responseParameters |->
         ("Timestamp" :> FromHeader("Date"))
      @@ ("Content-Length" :> FromHeader("Content-Length"))
      @@ ("Content-Type" :> FromHeader("Content-Type"))
      @@ Simple_createServerErrorResponse.responseParameters]

Simple_createNotFoundResponse ==
    [statusCode |-> "400",
     selectionPattern |-> <<Lit(4), DigitRep(2)>>,
     responseParameters |-> Simple_createServerErrorResponse.responseParameters]

createAwsIntegrationToUploadBackgroundImage_Unbound(toUploadBucketPath) ==
    [service |-> "s3",
     integrationHttpMethod |-> "PUT",
     path |-> toUploadBucketPath,
     requestHeaders |-> <<>>,
     requestPath |-> ("folder" :> "userId"),
     integrationResponses |->
         <<Simple_createOkResponse, Simple_createNotFoundResponse,
           Simple_createServerErrorResponse>>]

createAwsIntegrationToUploadBackgroundImage(toUploadBucketPath) ==
    [service |-> "s3",
     integrationHttpMethod |-> "PUT",
     path |-> toUploadBucketPath,
     requestHeaders |-> <<>>,
     requestPath |-> ("folder" :> "userId") @@ ("object" :> "fileName"),
     integrationResponses |->
         <<Simple_createOkResponse, Simple_createNotFoundResponse,
           Simple_createServerErrorResponse>>]

Simple_createMethodOptions ==
    LET responseParameters == CorsHeaders
    IN  [requestParameters |-> {"path.userId", "path.fileName"},
         methodResponses |->
             <<[statusCode |-> "200",
                responseParameters |->
                    {"Timestamp", "Content-Length", "Content-Type"}
                        \cup responseParameters],
               [statusCode |-> "400", responseParameters |-> responseParameters],
               [statusCode |-> "500", responseParameters |-> responseParameters]>>]

SimpleStack ==
    LET integration ==
            createAwsIntegrationToUploadBackgroundImage(
                <<Literal(bucketName), Literal("data"),
                  Literal("background-images"), Param("folder"), Param("object")>>)
        methodOptions == Simple_createMethodOptions
    IN  [binaryMediaTypes |-> {},
         methods |->
             {[httpMethod |-> "PUT",
               resource |-> <<Literal("users"), Param("userId"), Literal("files"),
                              Param("fileName")>>,
               integration |-> integration,
               options |-> methodOptions]}]

(***************************************************************************)
(* Requests and backend replies the gateway is exercised with.             *)
(***************************************************************************)
UserIds == {"alice", "bob"}

FileNames == {"cat.png", "song.mp3"}

\* single path segments, none of which contains a slash
Segments == UserIds \cup FileNames \cup {"a", "ab", "b", "bc", "c"}

Paths ==
    {<<"users", u, "files", f>> : u \in UserIds, f \in FileNames}
        \cup {<<"users", u, "files", c, f>> :
                 u \in UserIds, c \in {"background-images", "bgms"}, f \in FileNames}
        \cup {<<"users", "alice", "files">>, <<"users", "alice", "files", "bgms">>,
              <<"users", "alice", "files", "videos", "cat.png">>}

ApiKeys == {"none", "defaultKeys", "revoked"}

ContentTypes == {"image/png", "audio/mpeg"}

\* upstream status codes 100..599
StatusCodes == {<<a, b, c>> : a \in 1..5, b \in Digit, c \in Digit}

BackendPayloads ==
    {[headers |-> ("Date" :> "Thu, 05 Nov 2026 10:00:00 GMT")
                  @@ ("Content-Length" :> "0")
                  @@ ("Content-Type" :> "application/octet-stream")
                  @@ ("ETag" :> "d41d8cd9"),
      body |-> ""],
     [headers |-> ("Date" :> "Thu, 05 Nov 2026 10:00:01 GMT")
                  @@ ("Content-Length" :> "243")
                  @@ ("Content-Type" :> "application/xml")
                  @@ ("ETag" :> "none"),
      body |-> "<Error><Code>NoSuchBucket</Code></Error>"]}

NoHeaders == [h \in {} |-> ""]

None == [none |-> TRUE]

(***************************************************************************)
(* Method request: resource matching and path parameters.                  *)
(***************************************************************************)
ResourceMatches(resource, path) ==
    /\ Len(resource) = Len(path)
    /\ \A i \in 1..Len(path) :
           resource[i].seg = "literal" => resource[i].name = path[i]

PathParams(resource) ==
    {resource[i].name : i \in {j \in 1..Len(resource) : resource[j].seg = "param"}}

Binding(resource, path) ==
    [n \in PathParams(resource) |->
        path[CHOOSE i \in 1..Len(resource) :
                 resource[i].seg = "param" /\ resource[i].name = n]]

MatchingMethods(a, r) ==
    {m \in a.methods :
        m.httpMethod = r.httpMethod /\ ResourceMatches(m.resource, r.path)}

TheMethod == CHOOSE m \in MatchingMethods(api, req) : TRUE

RequiresKey(m) ==
    "apiKeyRequired" \in DOMAIN m.options /\ m.options.apiKeyRequired

ValidKeys(a) ==
    IF "usagePlan" \in DOMAIN a THEN a.usagePlan.apiKeys ELSE {}

(***************************************************************************)
(* Integration request: the storage path of the S3 PUT.                    *)
(***************************************************************************)
RECURSIVE JoinSlash(_)
JoinSlash(segs) ==
    IF segs = <<>> THEN ""
    ELSE IF Len(segs) = 1 THEN segs[1]
    ELSE segs[1] \o "/" \o JoinSlash(Tail(segs))

Substitute(integration, bind) ==
    [i \in 1..Len(integration.path) |->
        LET s == integration.path[i]
        IN  IF s.seg = "literal" THEN s.name
            ELSE IF s.name \in DOMAIN integration.requestPath
                    /\ integration.requestPath[s.name] \in DOMAIN bind
                 THEN bind[integration.requestPath[s.name]]
                 ELSE "{" \o s.name \o "}"]

StorageKey(integration, bind) ==
    JoinSlash(Tail(Substitute(integration, bind)))

IntegrationRequest(m, r) ==
    LET bind == Binding(m.resource, r.path)
        uri  == Substitute(m.integration, bind)
    IN  [service |-> m.integration.service,
         httpMethod |-> m.integration.integrationHttpMethod,
         bucket |-> Head(uri),
         key |-> JoinSlash(Tail(uri)),
         contentType |->
             IF "Content-Type" \in DOMAIN m.integration.requestHeaders
             THEN r.contentType ELSE "none"]

(***************************************************************************)
(* Integration response: tier selection and parameter mapping.             *)
(***************************************************************************)
HasPattern(t) == "selectionPattern" \in DOMAIN t

TierMatches(tiers, i, status) ==
    IF HasPattern(tiers[i])
    THEN RegexMatches(tiers[i].selectionPattern, status)
    ELSE \A j \in 1..Len(tiers) :
             HasPattern(tiers[j]) => ~RegexMatches(tiers[j].selectionPattern, status)

SelectedTiers(tiers, status) ==
    {i \in 1..Len(tiers) : TierMatches(tiers, i, status)}

Declared(options, statusCode) ==
    UNION {options.methodResponses[i].responseParameters :
              i \in {j \in 1..Len(options.methodResponses) :
                        options.methodResponses[j].statusCode = statusCode}}

MethodResponse(m, t, up) ==
    [source |-> "integration",
     statusCode |-> t.statusCode,
     headers |->
         [h \in DOMAIN t.responseParameters
                   \cap Declared(m.options, t.statusCode) |->
             IF t.responseParameters[h].kind = "static"
             THEN t.responseParameters[h].value
             ELSE up.headers[t.responseParameters[h].value]],
     body |-> IF "responseTemplates" \in DOMAIN t
              THEN t.responseTemplates ELSE up.body]

GatewayResponse(statusCode, message) ==
    [source |-> "gateway", statusCode |-> statusCode,
     headers |-> NoHeaders, body |-> message]

(***************************************************************************)
(* The deployed gateway.                                                   *)
(***************************************************************************)
Deploy(v) == IF v = "extended" THEN ExtendedStack ELSE SimpleStack

Init ==
    /\ variant \in {"simple", "extended"}
    /\ api = Deploy(variant)
    /\ pc = "idle"
    /\ req = None
    /\ used = 0
    /\ s3calls = 0
    /\ s3req = None
    /\ upstream = None
    /\ resp = None

Receive(path, key, ct) ==
    /\ pc = "idle"
    /\ req' = [httpMethod |-> "PUT", path |-> path, apiKey |-> key,
               contentType |-> ct]
    /\ pc' = "method"
    /\ UNCHANGED <<variant, api, used, s3calls, s3req, upstream, resp>>

RejectNoRoute ==
    /\ pc = "method"
    /\ MatchingMethods(api, req) = {}
    /\ resp' = GatewayResponse("403", "Missing Authentication Token")
    /\ pc' = "responded"
    /\ UNCHANGED <<variant, api, req, used, s3calls, s3req, upstream>>

RejectApiKey ==
    /\ pc = "method"
    /\ MatchingMethods(api, req) # {}
    /\ RequiresKey(TheMethod)
    /\ req.apiKey \notin ValidKeys(api)
    /\ resp' = GatewayResponse("403", "Forbidden")
    /\ pc' = "responded"
    /\ UNCHANGED <<variant, api, req, used, s3calls, s3req, upstream>>

RejectQuota ==
    /\ pc = "method"
    /\ MatchingMethods(api, req) # {}
    /\ RequiresKey(TheMethod)
    /\ req.apiKey \in ValidKeys(api)
    /\ used >= api.usagePlan.quota
    /\ resp' = GatewayResponse("429", "Limit Exceeded")
    /\ pc' = "responded"
    /\ UNCHANGED <<variant, api, req, used, s3calls, s3req, upstream>>

Invoke ==
    /\ pc = "method"
    /\ MatchingMethods(api, req) # {}
    /\ IF RequiresKey(TheMethod)
       THEN /\ req.apiKey \in ValidKeys(api)
            /\ used < api.usagePlan.quota
            /\ used' = used + 1
       ELSE used' = used
    /\ s3req' = IntegrationRequest(TheMethod, req)
    /\ s3calls' = s3calls + 1
    /\ pc' = "integration"
    /\ UNCHANGED <<variant, api, req, upstream, resp>>

\* the backend reply is mapped to the method response as it arrives
BackendReply(status, payload) ==
    /\ pc = "integration"
    /\ upstream' = [status |-> status, headers |-> payload.headers,
                    body |-> payload.body]
    /\ \E i \in SelectedTiers(TheMethod.integration.integrationResponses,
                              status) :
           resp' = MethodResponse(TheMethod,
                       TheMethod.integration.integrationResponses[i], upstream')
    /\ pc' = "responded"
    /\ UNCHANGED <<variant, api, req, used, s3calls, s3req>>

Complete ==
    /\ pc = "responded"
    /\ pc' = "idle"
    /\ req' = None
    /\ s3calls' = 0
    /\ s3req' = None
    /\ upstream' = None
    /\ resp' = None
    /\ UNCHANGED <<variant, api, used>>

\* the quota period is one day
NewDay ==
    /\ pc = "idle"
    /\ used > 0
    /\ used' = 0
    /\ UNCHANGED <<variant, api, pc, req, s3calls, s3req, upstream, resp>>

Next ==
    \/ \E path \in Paths, key \in ApiKeys, ct \in ContentTypes :
           Receive(path, key, ct)
    \/ RejectNoRoute
    \/ RejectApiKey
    \/ RejectQuota
    \/ Invoke
    \/ \E status \in StatusCodes, payload \in BackendPayloads :
           BackendReply(status, payload)
    \/ Complete
    \/ NewDay

Spec == Init /\ [][Next]_vars

TypeOK ==
    /\ variant \in {"simple", "extended"}
    /\ pc \in {"idle", "method", "integration", "responded"}
    /\ used \in 0..QuotaLimit
    /\ s3calls \in 0..1

(***************************************************************************)
(* Properties.                                                             *)
(***************************************************************************)
Tiers == TheMethod.integration.integrationResponses

FromBackend == pc = "responded" /\ resp.source = "integration"

OutcomeCodes == {"200", "400", "500"}

\* C1: whatever status code 100..599 the backend answers with, exactly one
\* of the three integration responses of the method is selected.
C1_ExactlyOneTier ==
    FromBackend =>
        /\ Len(Tiers) = 3
        /\ Cardinality(SelectedTiers(Tiers, upstream.status)) = 1

C1_Witness ==
    /\ pc = "responded"
    /\ resp.source = "integration"
    /\ upstream.status = <<3, 0, 4>>
    /\ resp.statusCode = "200"

\* C2: the storage key of the S3 PUT issued for (userId, fileName) is the
\* key of no other pair of path segments on the same route.
C2_KeyInjective ==
    pc = "integration" =>
        \A u \in Segments, f \in Segments :
            StorageKey(TheMethod.integration,
                       ("userId" :> u) @@ ("fileName" :> f)) = s3req.key
                => LET b == Binding(TheMethod.resource, req.path)
                   IN  u = b["userId"] /\ f = b["fileName"]

C2_Witness ==
    /\ pc = "integration"
    /\ variant = "extended"
    /\ s3req.key = "data/bgms/bob/cat.png"

\* C3: an upstream 4xx is answered with 400 and an upstream 5xx with 500,
\* both with the three CORS headers, after exactly one backend call.
C3_ErrorsSurfaced ==
    FromBackend /\ upstream.status[1] \in {4, 5} =>
        /\ resp.statusCode = (IF upstream.status[1] = 4 THEN "400" ELSE "500")
        /\ CorsHeaders \subseteq DOMAIN resp.headers
        /\ s3calls = 1

C3_Witness ==
    /\ FromBackend
    /\ upstream.status = <<5, 0, 3>>
    /\ resp.statusCode = "500"
    /\ resp.headers["Access-Control-Allow-Origin"] = "*"
    /\ s3calls = 1

\* C4: in the extended variant no S3 PUT is issued for a request that does
\* not carry the API key of the usage plan.
C4_NoKeyNoBackend ==
    variant = "extended" /\ pc # "idle" /\ req.apiKey # "defaultKeys" =>
        s3calls = 0 /\ s3req = None

C4_Witness ==
    /\ variant = "extended"
    /\ pc = "responded"
    /\ req.path = <<"users", "alice", "files", "bgms", "song.mp3">>
    /\ req.apiKey = "none"
    /\ resp.statusCode = "403"
    /\ s3calls = 0

MirrorsTiers(m) ==
    /\ {m.options.methodResponses[i].statusCode :
           i \in 1..Len(m.options.methodResponses)} = OutcomeCodes
    /\ {m.integration.integrationResponses[i].statusCode :
           i \in 1..Len(m.integration.integrationResponses)} = OutcomeCodes

\* C5 as stated: the method responses mirror the integration responses
\* {200, 400, 500}, and every response to a PUT on an upload route has one
\* of these status codes.
C5_OnlyThreeOutcomes ==
    /\ \A m \in api.methods : MirrorsTiers(m)
    /\ pc = "responded" /\ MatchingMethods(api, req) # {} =>
           resp.statusCode \in OutcomeCodes

\* C5 amended: the method responses mirror the integration responses
\* {200, 400, 500}; every response mapped from a backend reply has one of
\* these status codes, and a PUT on an upload route that the gateway rejects
\* itself (API key, quota) never reached the backend and is answered 403/429.
C5_OutcomesOfBackendReplies ==
    /\ \A m \in api.methods : MirrorsTiers(m)
    /\ FromBackend => resp.statusCode \in OutcomeCodes
    /\ pc = "responded" /\ resp.source = "gateway"
           /\ MatchingMethods(api, req) # {} =>
           /\ variant = "extended"
           /\ resp.statusCode \in {"403", "429"}
           /\ s3calls = 0

C5_Witness ==
    /\ pc = "responded"
    /\ resp.source = "gateway"
    /\ MatchingMethods(api, req) # {}
    /\ resp.statusCode = "429"

AudioToImages == <<"users", "alice", "files", "background-images", "song.mp3">>

AudioToBgms == <<"users", "alice", "files", "bgms", "song.mp3">>

\* C6 as stated: in the extended variant the PUT of song.mp3 under
\* background-images matches no route, and under bgms it is stored at
\* data/bgms/alice/song.mp3.
C6_AudioRouteOnly ==
    variant = "extended" /\ pc # "idle" =>
        /\ req.path = AudioToImages => MatchingMethods(api, req) = {}
        /\ req.path = AudioToBgms /\ pc = "integration" =>
               s3req.key = "data/bgms/alice/song.mp3"

\* C6 amended: in the extended variant the PUT of song.mp3 under
\* background-images matches the background-images route and is stored at
\* data/background-images/alice/song.mp3; under bgms it is stored at
\* data/bgms/alice/song.mp3.
C6_AudioFollowsRoute ==
    variant = "extended" /\ pc # "idle" =>
        /\ req.path \in {AudioToImages, AudioToBgms} =>
               Cardinality(MatchingMethods(api, req)) = 1
        /\ req.path = AudioToImages /\ pc = "integration" =>
               s3req.key = "data/background-images/alice/song.mp3"
        /\ req.path = AudioToBgms /\ pc = "integration" =>
               s3req.key = "data/bgms/alice/song.mp3"

C6_Witness ==
    /\ variant = "extended"
    /\ pc = "integration"
    /\ req.path = AudioToImages
    /\ req.contentType = "audio/mpeg"
    /\ s3req.key = "data/background-images/alice/song.mp3"

\* C7 as stated: the 400 answer to an upstream 4xx carries the CORS headers
\* and nothing of the upstream body.
C7_BodyStripped ==
    FromBackend /\ upstream.status[1] = 4 =>
        /\ resp.statusCode = "400"
        /\ CorsHeaders \subseteq DOMAIN resp.headers
        /\ resp.body = ""

\* C7 amended: the 400 answer to an upstream 4xx carries exactly the CORS
\* headers, and the upstream body unchanged.
C7_BodyPassedThrough ==
    FromBackend /\ upstream.status[1] = 4 =>
        /\ resp.statusCode = "400"
        /\ DOMAIN resp.headers = CorsHeaders
        /\ resp.body = upstream.body

C7_Witness ==
    /\ FromBackend
    /\ upstream.status = <<4, 0, 4>>
    /\ resp.statusCode = "400"
    /\ resp.body = "<Error><Code>NoSuchBucket</Code></Error>"

ExpectedKey(path) ==
    IF Len(path) = 4
    THEN "data/background-images/" \o path[2] \o "/" \o path[4]
    ELSE "data/" \o path[4] \o "/" \o path[2] \o "/" \o path[5]

\* C8: every placeholder of a storage path is bound to a path parameter of
\* the route, and a matching PUT goes to data/<category>/<userId>/<fileName>.
C8_PathBound ==
    /\ \A m \in api.methods :
           \A i \in 1..Len(m.integration.path) :
               m.integration.path[i].seg = "param" =>
                   /\ m.integration.path[i].name \in DOMAIN m.integration.requestPath
                   /\ m.integration.requestPath[m.integration.path[i].name]
                          \in PathParams(m.resource)
    /\ pc = "integration" =>
           /\ Len(req.path) = (IF variant = "simple" THEN 4 ELSE 5)
           /\ s3req.httpMethod = "PUT"
           /\ s3req.bucket = bucketName
           /\ s3req.key = ExpectedKey(req.path)

C8_Witness ==
    /\ pc = "integration"
    /\ variant = "simple"
    /\ req.path = <<"users", "bob", "files", "song.mp3">>
    /\ s3req.key = "data/background-images/bob/song.mp3"

AllOrNone(headers) ==
    headers \cap CorsHeaders # {} => CorsHeaders \subseteq headers

\* C9: an integration response, a method response and an answer that has a
\* CORS header has all three of them.
C9_CorsComplete ==
    /\ \A m \in api.methods :
           /\ \A i \in 1..Len(m.integration.integrationResponses) :
                  AllOrNone(DOMAIN
                      m.integration.integrationResponses[i].responseParameters)
           /\ \A i \in 1..Len(m.options.methodResponses) :
                  AllOrNone(m.options.methodResponses[i].responseParameters)
    /\ pc = "responded" => AllOrNone(DOMAIN resp.headers)

C9_Witness ==
    /\ FromBackend
    /\ resp.statusCode = "200"
    /\ CorsHeaders \subseteq DOMAIN resp.headers

\* C10: a backend 200 is answered with 200, Content-Type and Content-Length
\* of the backend reply and its Date as Timestamp.
C10_OkEchoed ==
    FromBackend /\ upstream.status = <<2, 0, 0>> =>
        /\ resp.statusCode = "200"
        /\ {"Content-Type", "Content-Length", "Timestamp"} \subseteq DOMAIN resp.headers
        /\ resp.headers["Content-Type"] = upstream.headers["Content-Type"]
        /\ resp.headers["Content-Length"] = upstream.headers["Content-Length"]
        /\ resp.headers["Timestamp"] = upstream.headers["Date"]
        /\ req.path = <<"users", "alice", "files", "cat.png">> =>
               s3req.key = "data/background-images/alice/cat.png"

C10_Witness ==
    /\ FromBackend
    /\ variant = "simple"
    /\ req.path = <<"users", "alice", "files", "cat.png">>
    /\ s3req.key = "data/background-images/alice/cat.png"
    /\ upstream.status = <<2, 0, 0>>
    /\ resp.statusCode = "200"
    /\ resp.headers["Timestamp"] = "Thu, 05 Nov 2026 10:00:00 GMT"

====
